---- MODULE Spec2Model ----
(***************************************************************************)
(* SpaceX launch records dashboard (7-spacex_dash_app.py).                 *)
(*                                                                         *)
(* State: the module-level table spacex_df with its two scalar summaries,  *)
(* the values of the two controls of the layout, and the outcome of the    *)
(* latest invocation of each of the two callbacks.                         *)
(*                                                                         *)
(* Spec      the dashboard as the browser drives it: the page load fires   *)
(*           both callbacks, a dropdown change fires both, a slider change *)
(*           fires get_scatter_chart only.                                 *)
(* SpecCall  the two callbacks as plain functions, applied to arguments    *)
(*           drawn from bounded sets (ranges with low > high included).    *)
(***************************************************************************)
EXTENDS Integers, Sequences, FiniteSets

VARIABLES csv_file, spacex_df, min_payload, max_payload,
          site_value, slider_value, pie_out, scatter_out

vars == <<csv_file, spacex_df, min_payload, max_payload,
          site_value, slider_value, pie_out, scatter_out>>

\* ------------------------------------------------------------------ bounds

\* Longest table the model loads.
MaxLen == 2

\* ------------------------------------------------------------ the dataset

\* Launch sites that occur in the loaded file (two of the four offered).
DataSites == {"CCAFS LC-40", "KSC LC-39A"}

\* Payload masses that occur in the loaded file.
Payloads == {500, 3000}

\* Outcome codes of the "class" column: integers 0 (failure) and 1 (success).
Classes == {0, 1}

Boosters == {"FT"}

\* The columns of the table that the callbacks read.
Columns == {"Launch Site", "Payload Mass (kg)", "class", "Booster Version Category"}

\* One row of the table.
LaunchRecord == [LaunchSite : DataSites, PayloadMass : Payloads,
                 class : Classes, BoosterVersionCategory : Boosters]

\* The files the model loads: between 1 and MaxLen rows.
Datasets == UNION {[1..n -> LaunchRecord] : n \in 1..MaxLen}

\* Series.max() / Series.min() of a non-empty numeric column.
ColumnMax(df) == CHOOSE m \in {df[i].PayloadMass : i \in 1..Len(df)} :
                    \A i \in 1..Len(df) : df[i].PayloadMass <= m

ColumnMin(df) == CHOOSE m \in {df[i].PayloadMass : i \in 1..Len(df)} :
                    \A i \in 1..Len(df) : m <= df[i].PayloadMass

\* pd.read_csv: one row of the frame per row of the file, in file order.
read_csv(file) == [i \in 1..Len(file) |-> file[i]]

\* ------------------------------------------------------------ the controls

\* The values of the options of the site-dropdown.
DropdownValues == {"ALL", "CCAFS LC-40", "VAFB SLC-4E", "KSC LC-39A", "CCAFS SLC-40"}

SliderMin == 0
SliderMax == 10000
SliderStep == 1000

\* The positions a handle of the payload-slider can take.
SliderMarks ==
    {SliderMin + k * SliderStep : k \in 0..((SliderMax - SliderMin) \div SliderStep)}

\* The ends kept in the order the handles were in.
SortEnds_keep(ends) == ends

\* The two ends of the range, lower one first.
SortEnds(ends) == IF ends[1] <= ends[2] THEN ends ELSE <<ends[2], ends[1]>>

\* The position of the slider closest to v: v is trimmed to [SliderMin, SliderMax]
\* and rounded to the step (a half step rounds up).
AlignToStep(v) ==
    LET t == IF v < SliderMin THEN SliderMin ELSE IF v > SliderMax THEN SliderMax ELSE v
    IN  ((2 * (t - SliderMin) + SliderStep) \div (2 * SliderStep)) * SliderStep + SliderMin

\* The value the payload-slider delivers when the user moves handle h to the
\* position v: the other handle stays where the slider shows it.
MovedRange(value, h, v) ==
    SortEnds([<<AlignToStep(value[1]), AlignToStep(value[2])>> EXCEPT ![h] = v])

\* ------------------------------------------------------------ frame algebra

\* df[mask]: the rows whose mask entry is True, in the order of df (a new frame).
RECURSIVE BoolIndex(_, _)
BoolIndex(df, mask) ==
    IF Len(df) = 0 THEN <<>>
    ELSE (IF mask[1] THEN <<df[1]>> ELSE <<>>) \o BoolIndex(Tail(df), Tail(mask))

\* A one-sided version: the upper comparison of the mask is lost.
RangeMask_lower(df, slider) ==
    [i \in 1..Len(df) |-> slider[1] <= df[i].PayloadMass]

\* (slider[0] <= df["Payload Mass (kg)"]) & (df["Payload Mass (kg)"] <= slider[1])
RangeMask(df, slider) ==
    [i \in 1..Len(df) |-> (slider[1] <= df[i].PayloadMass)
                          /\ (df[i].PayloadMass <= slider[2])]

\* The two comparisons joined with | instead of &.
RangeFilter_or(df, slider) ==
    BoolIndex(df, [i \in 1..Len(df) |-> (slider[1] <= df[i].PayloadMass)
                                        \/ (df[i].PayloadMass <= slider[2])])

\* spacex_df[(slider[0] <= payload) & (payload <= slider[1])]
RangeFilter(df, slider) == BoolIndex(df, RangeMask(df, slider))

\* df[df["Launch Site"] == entered_site]
SiteFilter(df, entered_site) ==
    BoolIndex(df, [i \in 1..Len(df) |-> df[i].LaunchSite = entered_site])

\* The group keys (site, class) in the sorted order groupby delivers them.
GroupKeys == << <<"CCAFS LC-40", 0>>, <<"CCAFS LC-40", 1>>,
                <<"CCAFS SLC-40", 0>>, <<"CCAFS SLC-40", 1>>,
                <<"KSC LC-39A", 0>>, <<"KSC LC-39A", 1>>,
                <<"VAFB SLC-4E", 0>>, <<"VAFB SLC-4E", 1>> >>

\* The number of rows of df in the group of key k.
GroupSize(df, k) ==
    Cardinality({i \in 1..Len(df) : df[i].LaunchSite = k[1] /\ df[i].class = k[2]})

\* Counting the distinct rows of a group instead of its rows.
GroupBySize_distinct(df) ==
    LET keys == SelectSeq(GroupKeys, LAMBDA k : GroupSize(df, k) > 0)
    IN  [j \in 1..Len(keys) |->
            [LaunchSite |-> keys[j][1], class |-> keys[j][2],
             count_of_class |->
                Cardinality({df[i] : i \in {i \in 1..Len(df) :
                    df[i].LaunchSite = keys[j][1] /\ df[i].class = keys[j][2]}})]]

\* df.groupby(["Launch Site", "class"]).size().reset_index(name="count of class"):
\* one row per group that occurs, keys sorted.
GroupBySize(df) ==
    LET keys == SelectSeq(GroupKeys, LAMBDA k : GroupSize(df, k) > 0)
    IN  [j \in 1..Len(keys) |->
            [LaunchSite |-> keys[j][1], class |-> keys[j][2],
             count_of_class |-> GroupSize(df, keys[j])]]

\* df["class"] == "Success": the class column holds integer codes, and an
\* integer never equals a string, so every entry of the mask is False.
ClassEqualsSuccess(df) == [i \in 1..Len(df) |-> FALSE]

\* ------------------------------------------------------------ chart builders

\* px.pie(data_frame, values=..., names=..., title=...)
px_pie(data_frame, values, names, title) ==
    [kind |-> "pie", data |-> data_frame, values |-> values, names |-> names,
     title |-> title]

\* px.scatter(data_frame, x=..., y=..., color=..., title=...)
px_scatter(data_frame, x, y, color, title) ==
    [kind |-> "scatter", data |-> data_frame, x |-> x, y |-> y, color |-> color,
     title |-> title]

\* An exception that leaves the callback.
Raise(error) == [kind |-> "raise", error |-> error]

\* ---------------------------------------------------------------- callbacks

\* The site filter rebinding the module-level table (spacex_df = spacex_df[...]).
get_pie_chart_inplace(df, entered_site) ==
    IF entered_site = "ALL"
    THEN [called |-> TRUE, entered_site |-> entered_site,
          rows |-> df, filtered_df |-> df,
          ret |-> px_pie(df, "class", "Launch Site",
                         <<"Success Count for all launch sites">>),
          spacex_df |-> df]
    ELSE LET site_df == SiteFilter(df, entered_site)
             counts == GroupBySize(site_df)
         IN  [called |-> TRUE, entered_site |-> entered_site,
              rows |-> site_df, filtered_df |-> counts,
              ret |-> px_pie(counts, "count of class", "class",
                             <<"Total Success Launches for site ", entered_site>>),
              spacex_df |-> site_df]

\* The pie chart reading the payload range of the slider as well.
get_pie_chart_ranged(df, entered_site) ==
    LET ranged == RangeFilter(df, slider_value)
    IN  IF entered_site = "ALL"
        THEN [called |-> TRUE, entered_site |-> entered_site,
              rows |-> ranged, filtered_df |-> ranged,
              ret |-> px_pie(ranged, "class", "Launch Site",
                             <<"Success Count for all launch sites">>),
              spacex_df |-> df]
        ELSE LET site_df == SiteFilter(ranged, entered_site)
                 counts == GroupBySize(site_df)
             IN  [called |-> TRUE, entered_site |-> entered_site,
                  rows |-> site_df, filtered_df |-> counts,
                  ret |-> px_pie(counts, "count of class", "class",
                                 <<"Total Success Launches for site ", entered_site>>),
                  spacex_df |-> df]

\* get_pie_chart(entered_site), with df the module-level spacex_df.
\*   rows         the frame the chart or the aggregation reads (line 99 or 109)
\*   filtered_df  the local filtered_df when the function returns
\*   ret          the returned figure
\*   spacex_df    the module-level table when the function returns
get_pie_chart(df, entered_site) ==
    IF entered_site = "ALL"
    THEN [called |-> TRUE, entered_site |-> entered_site,
          rows |-> df, filtered_df |-> df,
          ret |-> px_pie(df, "class", "Launch Site",
                         <<"Success Count for all launch sites">>),
          spacex_df |-> df]
    ELSE LET site_df == SiteFilter(df, entered_site)
             counts == GroupBySize(site_df)
         IN  [called |-> TRUE, entered_site |-> entered_site,
              rows |-> site_df, filtered_df |-> counts,
              ret |-> px_pie(counts, "count of class", "class",
                             <<"Total Success Launches for site ", entered_site>>),
              spacex_df |-> df]

\* filtered_df["outcome"] = filtered_df[filtered_df["class"] == "Success"]:
\* the right-hand side is a frame with every column of filtered_df; pandas
\* refuses to set a frame of several columns to the single column "outcome"
\* (ValueError). A frame of one column would be aligned on the index, leaving
\* the rows it lacks without a value.
SetOutcomeColumn(filtered_df) ==
    LET value == BoolIndex(filtered_df, ClassEqualsSuccess(filtered_df))
    IN  IF Cardinality(Columns) # 1
        THEN [raised |-> TRUE, error |-> "ValueError", frame |-> filtered_df]
        ELSE [raised |-> FALSE, error |-> "",
              frame |-> [i \in 1..Len(filtered_df) |->
                            [row |-> filtered_df[i],
                             outcome |-> IF \E j \in 1..Len(value) : value[j] = filtered_df[i]
                                         THEN "value" ELSE "NaN"]]]

\* The range filter rebinding the module-level table (spacex_df = spacex_df[...]).
get_scatter_chart_inplace(df, entered_site, slider) ==
    LET range_df == RangeFilter(df, slider)
    IN  IF entered_site = "ALL"
        THEN [called |-> TRUE, entered_site |-> entered_site, slider |-> slider,
              range_df |-> range_df, filtered_df |-> range_df,
              ret |-> px_scatter(range_df, "Payload Mass (kg)", "class",
                                 "Booster Version Category",
                                 <<"Launch Success Rate For All Sites">>),
              spacex_df |-> range_df]
        ELSE LET site_df == SiteFilter(range_df, entered_site)
                 set == SetOutcomeColumn(site_df)
             IN  [called |-> TRUE, entered_site |-> entered_site, slider |-> slider,
                  range_df |-> range_df, filtered_df |-> set.frame,
                  ret |-> IF set.raised THEN Raise(set.error)
                          ELSE px_scatter(set.frame, "Payload Mass (kg)", "class",
                                          "Booster Version Category",
                                          <<"Launch Success Rate For ", entered_site>>),
                  spacex_df |-> range_df]

\* get_scatter_chart(entered_site, slider), with df the module-level spacex_df.
\*   range_df     the local filtered_df after the range filter (lines 144-147)
\*   filtered_df  the local filtered_df when the function returns or raises
\*   ret          the returned figure, or the exception that left the function
\*   spacex_df    the module-level table when the function returns or raises
get_scatter_chart(df, entered_site, slider) ==
    LET range_df == RangeFilter(df, slider)
    IN  IF entered_site = "ALL"
        THEN [called |-> TRUE, entered_site |-> entered_site, slider |-> slider,
              range_df |-> range_df, filtered_df |-> range_df,
              ret |-> px_scatter(range_df, "Payload Mass (kg)", "class",
                                 "Booster Version Category",
                                 <<"Launch Success Rate For All Sites">>),
              spacex_df |-> df]
        ELSE LET site_df == SiteFilter(range_df, entered_site)
                 set == SetOutcomeColumn(site_df)
             IN  [called |-> TRUE, entered_site |-> entered_site, slider |-> slider,
                  range_df |-> range_df, filtered_df |-> set.frame,
                  ret |-> IF set.raised THEN Raise(set.error)
                          ELSE px_scatter(set.frame, "Payload Mass (kg)", "class",
                                          "Booster Version Category",
                                          <<"Launch Success Rate For ", entered_site>>),
                  spacex_df |-> df]

\* No invocation yet.
NotCalled == [called |-> FALSE]

\* ------------------------------------------------------------ the dashboard

\* The module has been imported: the file is read, the summaries are computed,
\* the layout holds the initial control values, no callback has run.
Init ==
    /\ csv_file \in Datasets
    /\ spacex_df = read_csv(csv_file)
    /\ max_payload = ColumnMax(read_csv(csv_file))
    /\ min_payload = ColumnMin(read_csv(csv_file))
    /\ site_value = "ALL"
    /\ slider_value = <<ColumnMin(read_csv(csv_file)), ColumnMax(read_csv(csv_file))>>
    /\ pie_out = NotCalled
    /\ scatter_out = NotCalled

\* The page is opened: both callbacks run once with the values of the layout.
PageLoad ==
    /\ ~pie_out.called
    /\ ~scatter_out.called
    /\ pie_out' = get_pie_chart(spacex_df, site_value)
    /\ scatter_out' = get_scatter_chart(pie_out'.spacex_df, site_value, slider_value)
    /\ spacex_df' = scatter_out'.spacex_df
    /\ UNCHANGED <<csv_file, min_payload, max_payload, site_value, slider_value>>

\* The user picks another option of the site-dropdown: both callbacks have
\* its value as an Input, both run.
SelectSite(s) ==
    /\ pie_out.called
    /\ s # site_value
    /\ site_value' = s
    /\ pie_out' = get_pie_chart(spacex_df, s)
    /\ scatter_out' = get_scatter_chart(pie_out'.spacex_df, s, slider_value)
    /\ spacex_df' = scatter_out'.spacex_df
    /\ UNCHANGED <<csv_file, min_payload, max_payload, slider_value>>

\* The user moves handle h of the payload-slider one step, to the adjacent
\* position v (an arrow key, or a drag over one mark): only get_scatter_chart
\* has the slider's value as an Input.
MoveSlider(h, v) ==
    /\ scatter_out.called
    /\ \/ v = AlignToStep(slider_value[h]) + SliderStep
       \/ v = AlignToStep(slider_value[h]) - SliderStep
    /\ slider_value' = MovedRange(slider_value, h, v)
    /\ scatter_out' = get_scatter_chart(spacex_df, site_value, slider_value')
    /\ spacex_df' = scatter_out'.spacex_df
    /\ UNCHANGED <<csv_file, min_payload, max_payload, site_value, pie_out>>

Next ==
    \/ PageLoad
    \/ \E s \in DropdownValues : SelectSite(s)
    \/ \E h \in {1, 2}, v \in SliderMarks : MoveSlider(h, v)

Spec == Init /\ [][Next]_vars

\* ------------------------------------------------ the callbacks as functions

\* The range ends the callbacks are applied to: below, on and above the
\* payloads of the table, in either order.
CallEnds == {0, 500, 3000}

\* As Init, with the arguments of the calls drawn freely.
InitCall ==
    /\ csv_file \in Datasets
    /\ spacex_df = read_csv(csv_file)
    /\ max_payload = ColumnMax(read_csv(csv_file))
    /\ min_payload = ColumnMin(read_csv(csv_file))
    /\ site_value \in DropdownValues
    /\ slider_value \in CallEnds \X CallEnds
    /\ pie_out = NotCalled
    /\ scatter_out = NotCalled

CallPieChart ==
    /\ pie_out' = get_pie_chart(spacex_df, site_value)
    /\ spacex_df' = pie_out'.spacex_df
    /\ UNCHANGED <<csv_file, min_payload, max_payload, site_value, slider_value,
                   scatter_out>>

CallScatterChart ==
    /\ scatter_out' = get_scatter_chart(spacex_df, site_value, slider_value)
    /\ spacex_df' = scatter_out'.spacex_df
    /\ UNCHANGED <<csv_file, min_payload, max_payload, site_value, slider_value,
                   pie_out>>

NextCall == CallPieChart \/ CallScatterChart

SpecCall == InitCall /\ [][NextCall]_vars

\* ------------------------------------------------------------- properties

\* The rows of D at the positions idx, in the order of D: row number k of the
\* result is the row of D at the k-th smallest position of idx.
Selected(D, idx) ==
    [k \in 1..Cardinality(idx) |->
        D[CHOOSE i \in idx : Cardinality({j \in idx : j <= i}) = k]]

\* The positions of D whose payload mass lies in the closed interval [lo, hi].
InRange(D, lo, hi) == {i \in 1..Len(D) : lo <= D[i].PayloadMass /\ D[i].PayloadMass <= hi}

\* The positions of D whose launch site is s.
AtSite(D, s) == {i \in 1..Len(D) : D[i].LaunchSite = s}

\* The sum of the count column of an aggregated frame.
RECURSIVE CountSum(_)
CountSum(counts) ==
    IF Len(counts) = 0 THEN 0 ELSE counts[1].count_of_class + CountSum(Tail(counts))

\* C1: for a range [lo, hi] with lo <= hi, the range filter of get_scatter_chart
\* returns exactly the rows of the dataset with lo <= payload <= hi: each
\* returned row is in the range, each row in the range is returned once, and
\* the rows keep their relative order.
RangeFilterExact ==
    (scatter_out.called /\ scatter_out.slider[1] <= scatter_out.slider[2]) =>
        LET lo == scatter_out.slider[1]
            hi == scatter_out.slider[2]
            out == scatter_out.range_df
        IN  /\ \A k \in 1..Len(out) :
                    lo <= out[k].PayloadMass /\ out[k].PayloadMass <= hi
            /\ Len(out) = Cardinality(InRange(csv_file, lo, hi))
            /\ out = Selected(csv_file, InRange(csv_file, lo, hi))

\* C1 happens: a valid range whose upper end is the payload of a row keeps two
\* different rows, in their order, and the function was applied.
RangeFilterExactWitness ==
    /\ scatter_out.called
    /\ scatter_out.slider[1] < scatter_out.slider[2]
    /\ Len(scatter_out.range_df) = 2
    /\ scatter_out.range_df[1] # scatter_out.range_df[2]
    /\ scatter_out.range_df[2].PayloadMass = scatter_out.slider[2]
    /\ scatter_out.range_df[1].PayloadMass < scatter_out.slider[2]

\* C2: for a specific site, the counts of the (site, class) groups of
\* get_pie_chart sum to the number of rows of the dataset at that site; each
\* group is a group of that site, no two groups share a key, and a group's
\* count is the number of rows of the site with the group's class.
GroupCountsComplete ==
    (pie_out.called /\ pie_out.entered_site # "ALL") =>
        LET counts == pie_out.filtered_df
            site == pie_out.entered_site
            rows == AtSite(csv_file, site)
        IN  /\ CountSum(counts) = Cardinality(rows)
            /\ \A j \in 1..Len(counts) :
                    /\ counts[j].LaunchSite = site
                    /\ counts[j].count_of_class =
                          Cardinality({i \in rows : csv_file[i].class = counts[j].class})
            /\ \A j, k \in 1..Len(counts) :
                    counts[j].class = counts[k].class => j = k
            /\ \A i \in rows : \E j \in 1..Len(counts) :
                    counts[j].class = csv_file[i].class

\* C2 happens: the table holds rows of the selected site and a row of another
\* site, and the aggregation ran.
GroupCountsCompleteWitness ==
    /\ pie_out.called
    /\ pie_out.entered_site # "ALL"
    /\ Len(pie_out.filtered_df) >= 1
    /\ CountSum(pie_out.filtered_df) < Len(csv_file)

\* C9: for a range with low > high the range filter of get_scatter_chart
\* yields the empty frame, for ALL and for every specific site, and for ALL
\* the scatter chart of the empty frame is returned.
InvalidRangeIsEmpty ==
    (scatter_out.called /\ scatter_out.slider[1] > scatter_out.slider[2]) =>
        /\ scatter_out.range_df = <<>>
        /\ scatter_out.filtered_df = <<>>
        /\ scatter_out.entered_site = "ALL" =>
              /\ scatter_out.ret.kind = "scatter"
              /\ scatter_out.ret.data = <<>>

\* C9 happens: get_scatter_chart ran with low > high on a table with a row
\* that lies below the upper end.
InvalidRangeIsEmptyWitness ==
    /\ scatter_out.called
    /\ scatter_out.slider[1] > scatter_out.slider[2]
    /\ \E i \in 1..Len(csv_file) : csv_file[i].PayloadMass <= scatter_out.slider[2]

\* C3: the proportion chart is computed from the selected site alone: for ALL
\* from the whole dataset as loaded, handed to the chart without aggregation,
\* for a specific site from exactly the rows of that site; this holds in every
\* state the slider can be moved to.
PieIgnoresRange ==
    pie_out.called =>
        /\ pie_out.entered_site = site_value
        /\ pie_out.ret.kind = "pie"
        /\ site_value = "ALL" =>
              /\ pie_out.rows = csv_file
              /\ pie_out.ret.data = csv_file
              /\ pie_out.ret.values = "class"
              /\ pie_out.ret.names = "Launch Site"
        /\ site_value # "ALL" =>
              /\ pie_out.rows = Selected(csv_file, AtSite(csv_file, site_value))
              /\ pie_out.ret.data = pie_out.filtered_df
              /\ CountSum(pie_out.ret.data) = Cardinality(AtSite(csv_file, site_value))

\* C3 happens: the slider has been moved to a range that leaves out a row the
\* proportion chart is built from.
PieIgnoresRangeWitness ==
    /\ pie_out.called
    /\ scatter_out.called
    /\ slider_value # <<min_payload, max_payload>>
    /\ \E k \in 1..Len(pie_out.rows) :
          \/ pie_out.rows[k].PayloadMass < slider_value[1]
          \/ pie_out.rows[k].PayloadMass > slider_value[2]

\* C4: every change of a control leaves two chart specifications, a proportion
\* chart and a scatter chart, each computed from the control values of that
\* moment.
EveryChangeYieldsTwoCharts ==
    [][(site_value' # site_value \/ slider_value' # slider_value) =>
          /\ pie_out'.ret.kind = "pie"
          /\ pie_out'.entered_site = site_value'
          /\ scatter_out'.ret.kind = "scatter"
          /\ scatter_out'.entered_site = site_value'
          /\ scatter_out'.slider = slider_value']_vars

\* C5 as stated: the range is ordered and both ends lie within the minimum and
\* the maximum payload mass observed at load time.
SliderWithinObserved ==
    /\ slider_value[1] <= slider_value[2]
    /\ min_payload <= slider_value[1]
    /\ slider_value[2] <= max_payload

\* C5, amended: the range is ordered; it is the pair of the observed minimum
\* and maximum until the slider is moved, and from then on both ends are
\* positions of the slider's fixed scale, whatever the dataset holds.
SliderWithinScale ==
    /\ slider_value[1] <= slider_value[2]
    /\ \/ slider_value = <<min_payload, max_payload>>
       \/ /\ scatter_out.called
          /\ slider_value[1] \in SliderMarks
          /\ slider_value[2] \in SliderMarks

\* C5 happens: the slider has been moved, its handles have crossed the whole
\* scale, and the range reaches beyond the observed payloads on both sides.
SliderWithinScaleWitness ==
    /\ scatter_out.called
    /\ slider_value = <<SliderMin, SliderMax>>
    /\ slider_value[1] < min_payload
    /\ slider_value[2] > max_payload

\* C6: the module-level dataset holds the rows that were loaded, in the same
\* order and with the same values, after any sequence of callback runs; the
\* two summaries keep their values.
DatasetImmutable ==
    /\ spacex_df = read_csv(csv_file)
    /\ min_payload = ColumnMin(read_csv(csv_file))
    /\ max_payload = ColumnMax(read_csv(csv_file))

\* C6 happens: both callbacks ran for a specific site with rows, the scatter
\* callback reached the assignment of the derived column, and the slider had
\* been moved to a range that leaves out a row.
DatasetImmutableWitness ==
    /\ pie_out.called
    /\ scatter_out.called
    /\ scatter_out.entered_site # "ALL"
    /\ Len(pie_out.rows) >= 1
    /\ Len(scatter_out.range_df) < Len(csv_file)

\* C7: the view of each callback is a function of the current control values
\* and the loaded dataset only: whatever was selected before, the scatter
\* callback's view holds the rows in the current range (and at the current
\* site), the pie callback's the rows of the current site.
ViewIsFunctionOfControls ==
    /\ pie_out.called =>
          /\ pie_out.entered_site = site_value
          /\ pie_out.rows =
                IF site_value = "ALL" THEN csv_file
                ELSE Selected(csv_file, AtSite(csv_file, site_value))
    /\ scatter_out.called =>
          /\ scatter_out.entered_site = site_value
          /\ scatter_out.slider = slider_value
          /\ scatter_out.filtered_df =
                Selected(csv_file,
                         IF site_value = "ALL"
                         THEN InRange(csv_file, slider_value[1], slider_value[2])
                         ELSE InRange(csv_file, slider_value[1], slider_value[2])
                              \cap AtSite(csv_file, site_value))

\* C7 happens: both controls have been changed since the page load, so the
\* callbacks ran with other values before, and the scatter callback's view now
\* holds some rows of the table and leaves others out.
ViewIsFunctionOfControlsWitness ==
    /\ pie_out.called
    /\ scatter_out.called
    /\ site_value # "ALL"
    /\ slider_value # <<min_payload, max_payload>>
    /\ Len(scatter_out.filtered_df) >= 1
    /\ Len(scatter_out.filtered_df) < Len(csv_file)

\* C8: a selection that matches no row still yields its chart: the proportion
\* chart and the scatter chart of the empty frame.
EmptyResultStillCharts ==
    /\ (pie_out.called /\ pie_out.rows = <<>>) =>
          /\ pie_out.ret.kind = "pie"
          /\ pie_out.ret.data = <<>>
    /\ (scatter_out.called /\ scatter_out.filtered_df = <<>>) =>
          /\ scatter_out.ret.kind = "scatter"
          /\ scatter_out.ret.data = <<>>

\* C10: for a specific site get_scatter_chart returns the scatter chart of
\* exactly the rows that are in the range and at the site, in their order.
SpecificSiteScatterReturned ==
    (scatter_out.called /\ scatter_out.entered_site # "ALL") =>
        /\ scatter_out.ret.kind = "scatter"
        /\ scatter_out.ret.data =
              Selected(csv_file,
                       InRange(csv_file, scatter_out.slider[1], scatter_out.slider[2])
                       \cap AtSite(csv_file, scatter_out.entered_site))

====
